---------------------------- MODULE Spec2Model ----------------------------
(***************************************************************************)
(* fetch-wordpress-api: a model of the query builder (endpointParams-      *)
(* Builder), of the transport (fetchData with its abort timer,             *)
(* fetchDataWithRetries and the callers of both), of the redirect          *)
(* resolver (detectRedirects with fetchPageBySlug), of the media cache     *)
(* (configure, fetchAllImages), of the images of a page                    *)
(* (fetchImagesInPageBySlug, sortImagesByAppearanceOrder), of the          *)
(* per-URL image lookups (fetchImageByUrl under Promise.all) and of a      *)
(* facade call with its re-fetches while configure changes BASE_URL.       *)
(*                                                                         *)
(* An optional JavaScript argument is a sequence of length 0 (undefined)   *)
(* or 1 (the value).  A string built by Array.join is the sequence of its  *)
(* tokens and separators.                                                  *)
(***************************************************************************)
EXTENDS Integers, Sequences, FiniteSets, TLC

VARIABLES
    \* ---- query builder: endpointParamsBuilder(fields, quantity)
    fields,          \* the `fields` argument: <<>> or <<array of tokens>>
    quantity,        \* the `quantity` argument: <<>> or <<number>>
    endpointParams,  \* the object returned, a function on its own keys
    bpc,             \* "idle", "args" before the call, "built" after it
    \* ---- transport: fetchData, fetchDataWithRetries and their callers
    request,     \* the call in progress: [op, fields, quantity, endpoint, query,
                 \* redirects], or NoRequest
    maxRetries,  \* fetchDataWithRetries' maxRetries argument
    attempt,     \* fetchDataWithRetries' loop variable
    attempts,    \* number of fetchData calls made, i.e. of GETs issued
    timer,       \* the abort timer of the current fetchData call
    tpc,         \* "idle", "fetching", "json", "enriching", "resolved", "rejected"
    data,        \* the body parsed by res.json(), NoData before
    outcomes,    \* how each fetchData call settled, in order
    result,      \* what the caller's promise settled with
    \* ---- redirect resolver: detectRedirects(posts)
    posts,       \* the batch passed in
    requested,   \* per post: <<>> or <<slug>>, the slug its re-fetch asked for
    pending,     \* the posts whose re-fetch is in flight
    answer,      \* per post: <<>> or <<what the GET of its re-fetch settled with>>
    branch,      \* per post: what its map callback settled with
    settled,     \* the posts whose callback has settled, in order of settling
    returned,    \* the array detectRedirects resolved with, each record with its post
    dpc,         \* "idle", "mapping", "resolved", "rejected"
    \* ---- images: configure, fetchAllImages, fetchImagesInPageBySlug
    BASE_URL,           \* <<>> until configure has set it, then <<origin>>
    imageFetchPromise,  \* the cached promise: null, pending or settled
    sent,               \* the GETs fetchData has issued, in order
    callers,            \* per call of fetchAllImages: where it is and what it got
    imageUrls,          \* the image URLs extracted from the page's content
    images,             \* the attached media getImagesLink resolved with
    pageImages,         \* the array fetchImagesInPageBySlug resolved with
    ipc,                \* "idle", "page", "gathering", "returned", "threw"
    \* ---- per-URL image lookups under Promise.all
    lookupUrls,  \* the image URLs mapped over
    lookups,     \* per URL: what its map callback settled with, NoResult before
    allMedia,    \* what the Promise.all over the callbacks settled with
    lpc,         \* "idle", "mapping", "resolved", "rejected"
    \* ---- a facade call with redirect resolution, and configure
    facade,      \* the facade called: "fetchPosts", "fetchPostsInCategory"; "none" before
    issued,      \* the URLs of the GETs issued on behalf of the call, in order
    awaited,     \* number of re-fetches detectRedirects still awaits
    cpc          \* "idle", "fetching", "redirecting", "resolved", "rejected"

bvars == <<fields, quantity, endpointParams, bpc>>
tvars == <<request, maxRetries, attempt, attempts, timer, tpc, data, outcomes, result>>
dvars == <<posts, requested, pending, answer, branch, settled, returned, dpc>>
ivars == <<BASE_URL, imageFetchPromise, sent, callers, imageUrls, images, pageImages, ipc>>
lvars == <<lookupUrls, lookups, allMedia, lpc>>
cvars == <<facade, issued, awaited, cpc>>
vars == <<bvars, tvars, dvars, ivars, lvars, cvars>>

(***************************************************************************)
(* Bounds of the query builder's inputs.                                   *)
(***************************************************************************)
MaxFields == 3
MaxQuantity == 3

FieldTokens == {"id", "title", "image"}

Undefined == <<>>
Some(v) == <<v>>
IsDefined(opt) == Len(opt) = 1
ValueOf(opt) == opt[1]

SeqsUpTo(S, n) == UNION {[1..k -> S] : k \in 0..n}

Range(s) == {s[i] : i \in DOMAIN s}

(***************************************************************************)
(* [...new Set(fields)]: a Set iterates in insertion order, so the spread  *)
(* keeps the first occurrence of every token.                              *)
(***************************************************************************)
RECURSIVE UniqueFields(_)
UniqueFields(s) ==
    IF s = <<>> THEN <<>>
    ELSE LET init == UniqueFields(SubSeq(s, 1, Len(s) - 1))
             last == s[Len(s)]
         IN  IF last \in Range(init) THEN init ELSE Append(init, last)

(***************************************************************************)
(* Array.prototype.join(sep): the elements with sep between neighbours.    *)
(***************************************************************************)
RECURSIVE Join(_, _)
Join(s, sep) ==
    IF s = <<>> THEN <<>>
    ELSE IF Len(s) = 1 THEN <<s[1]>>
    ELSE Join(SubSeq(s, 1, Len(s) - 1), sep) \o <<sep, s[Len(s)]>>

(***************************************************************************)
(* The compiled build helperFunctions.js joins the tokens as given, without *)
(* the Set: the builder as it was before deduplication was added.          *)
(***************************************************************************)
endpointParamsBuilderJs(f, q) ==
    LET hasFields == IsDefined(f) /\ Len(ValueOf(f)) > 0
        hasQuantity == IsDefined(q)
        keys == (IF hasFields THEN {"_fields"} ELSE {})
                \cup (IF hasQuantity THEN {"per_page"} ELSE {})
    IN  [k \in keys |->
            IF k = "_fields" THEN Join(ValueOf(f), ",") ELSE ValueOf(q)]

(***************************************************************************)
(* A builder that treats only a positive quantity as a page size.          *)
(***************************************************************************)
endpointParamsBuilderPositiveOnly(f, q) ==
    LET hasFields == IsDefined(f) /\ Len(ValueOf(f)) > 0
        hasQuantity == IsDefined(q) /\ ValueOf(q) > 0
        keys == (IF hasFields THEN {"_fields"} ELSE {})
                \cup (IF hasQuantity THEN {"per_page"} ELSE {})
    IN  [k \in keys |->
            IF k = "_fields" THEN Join(UniqueFields(ValueOf(f)), ",")
            ELSE ValueOf(q)]

(***************************************************************************)
(* endpointParamsBuilder(fields, quantity): `_fields` when fields is a     *)
(* non-empty array, `per_page` when typeof quantity === 'number'.          *)
(***************************************************************************)
endpointParamsBuilder(f, q) ==
    LET hasFields == IsDefined(f) /\ Len(ValueOf(f)) > 0
        hasQuantity == IsDefined(q)
        keys == (IF hasFields THEN {"_fields"} ELSE {})
                \cup (IF hasQuantity THEN {"per_page"} ELSE {})
    IN  [k \in keys |->
            IF k = "_fields" THEN Join(UniqueFields(ValueOf(f)), ",")
            ELSE ValueOf(q)]

FieldsInputs == {Undefined} \cup {Some(s) : s \in SeqsUpTo(FieldTokens, MaxFields)}
QuantityInputs == {Undefined} \cup {Some(n) : n \in (-1)..MaxQuantity}

NoParams == [k \in {} |-> 0]

BuilderInit ==
    /\ fields \in FieldsInputs
    /\ quantity \in QuantityInputs
    /\ endpointParams = NoParams
    /\ bpc = "args"

BuildParams ==
    /\ bpc = "args"
    /\ endpointParams' = endpointParamsBuilder(fields, quantity)
    /\ bpc' = "built"
    /\ UNCHANGED <<fields, quantity>>
    /\ UNCHANGED <<tvars, dvars, ivars, lvars, cvars>>

(***************************************************************************)
(* Transport: fetchData (one GET under an abort timer), fetchDataWithRetries*)
(* (the retry loop) and the operations that issue a GET through them.      *)
(***************************************************************************)
\* maxRetries = 3, the default of fetchDataWithRetries' third parameter
DefaultMaxRetries == 3
\* largest maxRetries a direct caller of fetchDataWithRetries passes here
MaxRetriesArg == 4
\* per_page of fetchAllImages' media listing
MediaPerPage == 100

Facades ==
    {"fetchPosts", "fetchPostsInCategory", "fetchPostBySlug", "fetchPostById",
     "fetchAllCategories", "fetchPages", "fetchPageBySlug", "fetchPageById",
     "fetchAllImages"}

Callers == Facades \cup {"fetchImageByUrl", "fetchDataWithRetries"}

(***************************************************************************)
(* Whether an operation issues its GET through fetchDataWithRetries; every *)
(* other operation awaits fetchData itself.                                *)
(***************************************************************************)
UsesRetriesEverywhere(op) == TRUE

UsesRetries(op) == op \in {"fetchImageByUrl", "fetchDataWithRetries"}

NoQuery == Undefined
NoId == Undefined
Endpoint(resource, id) == [resource |-> resource, id |-> id]

\* endpointParams.slug = slug, endpointParams.categories = categoryId, ...
WithParam(params, key, value) ==
    [k \in DOMAIN params \cup {key} |-> IF k = key THEN value ELSE params[k]]

(***************************************************************************)
(* fetchPosts as it was before it knew -1: one branch without arguments,   *)
(* every other call hands its quantity to endpointParamsBuilder.           *)
(***************************************************************************)
ListRequestWithoutAll(resource, f, q) ==
    IF ~IsDefined(f) /\ (~IsDefined(q) \/ ValueOf(q) = 0)
    THEN [endpoint |-> Endpoint(resource, NoId), query |-> NoQuery, redirects |-> FALSE]
    ELSE [endpoint |-> Endpoint(resource, NoId),
          query |-> Some(endpointParamsBuilder(f, q)),
          redirects |-> resource = "posts"]

\* fetchPosts with detectRedirects on its first branch too
ListRequestRedirectsAlways(resource, f, q) ==
    IF ~IsDefined(f) /\ (~IsDefined(q) \/ ValueOf(q) = 0)
    THEN [endpoint |-> Endpoint(resource, NoId), query |-> NoQuery,
          redirects |-> resource = "posts"]
    ELSE IF IsDefined(f) /\ IsDefined(q) /\ ValueOf(q) = -1
    THEN [endpoint |-> Endpoint(resource, NoId),
          query |-> Some(endpointParamsBuilder(f, Undefined)),
          redirects |-> resource = "posts"]
    ELSE [endpoint |-> Endpoint(resource, NoId),
          query |-> Some(endpointParamsBuilder(f, q)),
          redirects |-> resource = "posts"]

(***************************************************************************)
(* The endpoint and query each operation hands to the transport, from its  *)
(* field list f and quantity q (where it has them), and whether it hands   *)
(* the list fetched to detectRedirects before it returns it.               *)
(*                                                                         *)
(* fetchPosts and fetchPages have three branches: no field list and no     *)
(* quantity (undefined or 0): the bare endpoint, returned as fetched; a    *)
(* field list and quantity -1: the builder without a quantity; otherwise   *)
(* the builder with both.  Only fetchPosts calls detectRedirects.          *)
(***************************************************************************)
ListRequest(resource, f, q) ==
    IF ~IsDefined(f) /\ (~IsDefined(q) \/ ValueOf(q) = 0)
    THEN [endpoint |-> Endpoint(resource, NoId), query |-> NoQuery, redirects |-> FALSE]
    ELSE IF IsDefined(f) /\ IsDefined(q) /\ ValueOf(q) = -1
    THEN [endpoint |-> Endpoint(resource, NoId),
          query |-> Some(endpointParamsBuilder(f, Undefined)),
          redirects |-> resource = "posts"]
    ELSE [endpoint |-> Endpoint(resource, NoId),
          query |-> Some(endpointParamsBuilder(f, q)),
          redirects |-> resource = "posts"]

\* a user's own call of fetchDataWithRetries: for posts when a field list is
\* given, for categories otherwise
OwnRequest(f) ==
    IF IsDefined(f)
    THEN [endpoint |-> Endpoint("posts", NoId),
          query |-> Some(endpointParamsBuilder(f, Undefined)), redirects |-> FALSE]
    ELSE [endpoint |-> Endpoint("categories", NoId), query |-> NoQuery, redirects |-> FALSE]

RequestOf(op, f, q) ==
    CASE op = "fetchPosts" -> ListRequest("posts", f, q)
      [] op = "fetchPages" -> ListRequest("pages", f, q)
      [] op = "fetchPostsInCategory" ->
            [endpoint |-> Endpoint("posts", NoId),
             query |-> Some(WithParam(endpointParamsBuilder(f, q), "categories", 1)),
             redirects |-> TRUE]
      [] op = "fetchPostBySlug" ->
            [endpoint |-> Endpoint("posts", NoId),
             query |-> Some(WithParam(endpointParamsBuilder(f, Undefined), "slug", "new")),
             redirects |-> FALSE]
      [] op = "fetchPageBySlug" ->
            [endpoint |-> Endpoint("pages", NoId),
             query |-> Some(WithParam(endpointParamsBuilder(f, Undefined), "slug", "new")),
             redirects |-> FALSE]
      [] op = "fetchPostById" ->
            [endpoint |-> Endpoint("posts", Some(1)),
             query |-> Some(endpointParamsBuilder(f, Undefined)), redirects |-> FALSE]
      [] op = "fetchPageById" ->
            [endpoint |-> Endpoint("pages", Some(1)),
             query |-> Some(endpointParamsBuilder(f, Undefined)), redirects |-> FALSE]
      [] op = "fetchAllCategories" ->
            IF ~IsDefined(f)
            THEN [endpoint |-> Endpoint("categories", NoId), query |-> NoQuery,
                  redirects |-> FALSE]
            ELSE [endpoint |-> Endpoint("categories", NoId),
                  query |-> Some(endpointParamsBuilder(f, Undefined)), redirects |-> FALSE]
      [] op = "fetchAllImages" ->
            [endpoint |-> Endpoint("media", NoId),
             query |-> Some(WithParam(NoParams, "per_page", MediaPerPage)),
             redirects |-> FALSE]
      [] op = "fetchImageByUrl" ->
            [endpoint |-> Endpoint("media-by-url", NoId),
             query |-> Some(WithParam(NoParams, "url", "https://site/a.jpg")),
             redirects |-> FALSE]
      [] OTHER -> OwnRequest(f)  \* fetchDataWithRetries called by the library's user

\* query?.get('_fields')
FieldValue(query) ==
    IF IsDefined(query) /\ "_fields" \in DOMAIN ValueOf(query)
    THEN Some(ValueOf(query)["_fields"])
    ELSE Undefined

(***************************************************************************)
(* fetchData's test as it was when it read the keys of the query: images   *)
(* for a list of posts, pages or categories asked for by per_page alone,   *)
(* by categories alone, or with an `image` parameter among others.         *)
(***************************************************************************)
EnrichesByQueryKeys(endpoint, query) ==
    LET keys == IF IsDefined(query) THEN DOMAIN ValueOf(query) ELSE {} IN
    /\ endpoint.resource \in {"posts", "pages", "categories"}
    /\ ~IsDefined(endpoint.id)
    /\ \/ keys = {"per_page"}
       \/ Cardinality(keys) > 1 /\ "image" \in keys
       \/ keys = {"categories"}

(***************************************************************************)
(* fetchData's test for handing the parsed body to addImagesToPost.        *)
(***************************************************************************)
Enriches(endpoint, query) ==
    /\ endpoint.resource \in {"pages", "posts"}
    /\ \/ ~IsDefined(FieldValue(query))
       \/ "image" \in Range(ValueOf(FieldValue(query)))

(***************************************************************************)
(* The errors a fetchData call rejects with, by what went wrong.  The      *)
(* attempt number tells the errors of two attempts apart.                  *)
(***************************************************************************)
ErrorOf(cause, n) ==
    CASE cause = "timeout" -> [name |-> "AbortError", message |-> "This operation was aborted", attempt |-> n]
      [] cause = "http"    -> [name |-> "Error", message |-> "Error in fetchData: status", attempt |-> n]
      [] cause = "network" -> [name |-> "TypeError", message |-> "fetch failed", attempt |-> n]
      [] cause = "parse"   -> [name |-> "SyntaxError", message |-> "Unexpected token", attempt |-> n]
      [] OTHER             -> [name |-> "Error", message |-> "addImagesToPost", attempt |-> n]

\* the catch block of fetchData, with a generic error in place of the one caught
RethrownGeneric(error) ==
    [name |-> "Error", message |-> "Error in fetchData", attempt |-> error.attempt]

\* the catch block of fetchData: clearTimeout, log, `throw error`
Rethrown(error) == error

MaxRetriesReached == [name |-> "Error", message |-> "Max retries reached", attempt |-> 0]

NoRequest ==
    [op |-> "none", fields |-> Undefined, quantity |-> Undefined,
     endpoint |-> Endpoint("none", NoId), query |-> NoQuery, redirects |-> FALSE]
NoResult == [kind |-> "none"]
Value(d) == [kind |-> "value", data |-> d]
Thrown(error) == [kind |-> "error", error |-> error]

PageNotFound == [name |-> "Error", message |-> "Page not found", attempt |-> 0]

\* fetchPageBySlug as it was before it threw on an empty list
fetchPageBySlugNoThrow(get) == get

(***************************************************************************)
(* fetchPageBySlug(slug), given what its fetchData call settles with: a    *)
(* rejection is rethrown, an empty list is thrown as 'Page not found'.     *)
(***************************************************************************)
fetchPageBySlug(get) ==
    IF get.kind = "error" THEN get
    ELSE IF Len(get.data) = 0 THEN Thrown(PageNotFound)
    ELSE get

(***************************************************************************)
(* What res.json() yields: an array of records, a single record, or a      *)
(* SyntaxError for a body that is no JSON.                                 *)
(***************************************************************************)
JsonArray(items) == [json |-> "array", items |-> items]
JsonObject(id) == [json |-> "object", id |-> id]
InvalidJson == [json |-> "invalid"]
NoData == [json |-> "none"]

\* the bodies a 2xx response carries: a list of 0..2 records, one record, no JSON
Bodies ==
    {JsonArray(<<>>), JsonArray(<<JsonObject(1)>>),
     JsonArray(<<JsonObject(1), JsonObject(2)>>), JsonObject(1), InvalidJson}

\* fetchData's last line as it was at first: `return data`
ReturnRaw(d) == d

\* fetchData's last line: `return Array.isArray(data) ? data : [data]`
WrapIfNotArray(d) == IF d.json = "array" THEN d ELSE JsonArray(<<d>>)

(***************************************************************************)
(* addImagesToPost(data): every record of the response with its resolved   *)
(* `image` attached; a single record comes back as a list of one.          *)
(***************************************************************************)
WithImage(record) == [json |-> "object", id |-> record.id, image |-> "resolved"]

addImagesToPost(d) ==
    LET records == IF d.json = "array" THEN d.items ELSE <<d>>
    IN  JsonArray([i \in DOMAIN records |-> WithImage(records[i])])

\* a facade's catch block, with an error of its own in place of the one caught
FacadeCatchWrapped(error) ==
    [name |-> "Error", message |-> "Error in facade", attempt |-> error.attempt]

\* a facade's catch block: log, `throw error`
FacadeCatch(error) == error

(***************************************************************************)
(* `await detectRedirects(data)` in a facade: the list returned is the one *)
(* detectRedirects resolved with.  The records of this section carry no    *)
(* link, so each callback's slugExtractor throws and hands its post back;  *)
(* the posts that have moved are followed in the redirect section.         *)
(***************************************************************************)
ThroughDetectRedirects(d) == [body |-> d.body, by |-> "detectRedirects"]

(***************************************************************************)
(* What a facade does with the list its fetchData call resolved with:      *)
(* fetchPageBySlug throws on an empty list, fetchPosts (but for its first  *)
(* branch) and fetchPostsInCategory return what detectRedirects makes of   *)
(* it, the others return it.                                               *)
(***************************************************************************)
FacadeReturn(req, d) ==
    IF req.op = "fetchPageBySlug" /\ d.body.json = "array"
    THEN LET page == fetchPageBySlug(Value(d.body.items))
         IN  IF page.kind = "error" THEN Thrown(FacadeCatch(page.error)) ELSE Value(d)
    ELSE IF req.redirects
    THEN Value(ThroughDetectRedirects(d))
    ELSE Value(d)

\* the operations with a quantity parameter, and those with a field list
TakesQuantity(op) ==
    op \in {"fetchPosts", "fetchPages", "fetchPostsInCategory"}

TakesFields(op) == op \notin {"fetchAllImages", "fetchImageByUrl"}

TransportArgsFields == {Undefined, Some(<<>>), Some(<<"title">>), Some(<<"title", "image">>)}
TransportArgsQuantity == {Undefined, Some(-1), Some(0), Some(2)}

TransportInit ==
    /\ request = NoRequest
    /\ maxRetries = DefaultMaxRetries
    /\ attempt = 0
    /\ attempts = 0
    /\ timer = "none"
    /\ tpc = "idle"
    /\ data = NoData
    /\ outcomes = <<>>
    /\ result = NoResult

\* the retry test in fetchDataWithRetries' catch block, with one retry fewer
ShouldRetryOneFewer(a, m) == a < m - 2

\* the retry test in fetchDataWithRetries' catch block, without the `- 1`
ShouldRetryOneMore(a, m) == a < m

\* fetchDataWithRetries' catch block: `if (attempt < maxRetries - 1)`
ShouldRetry(a, m) == a < m - 1

\* fetchDataWithRetries' loop test: `attempt < maxRetries`
LoopContinues(a, m) == a < m

\* fetchData without its calls of clearTimeout
clearTimeoutNever(t) == t

\* clearTimeout(timeoutId): a pending timer is cancelled, one that has fired
\* or was cleared stays as it is
clearTimeout(t) == IF t = "armed" THEN "cleared" ELSE t

(***************************************************************************)
(* fetchData up to `await fetch(url, { signal })`: the timer is set and    *)
(* the GET is issued.                                                      *)
(***************************************************************************)
BeginFetchData ==
    /\ timer' = "armed"
    /\ attempts' = attempts + 1
    /\ tpc' = "fetching"
    /\ result' = result

Reject(error) ==
    /\ tpc' = "rejected"
    /\ result' = Thrown(error)
    /\ attempts' = attempts

(***************************************************************************)
(* A call: the operation builds its request and runs, synchronously, up to *)
(* the first await.  fetchDataWithRetries enters its loop; with nothing to *)
(* iterate it falls through to the rejection after the loop.               *)
(***************************************************************************)
Call(op, f, q, m) ==
    /\ tpc = "idle"
    /\ IsDefined(f) => TakesFields(op)
    /\ IsDefined(q) => TakesQuantity(op)
    /\ UNCHANGED <<bvars, dvars, ivars, lvars, cvars>>
    /\ request' = [op |-> op, fields |-> f, quantity |-> q] @@ RequestOf(op, f, q)
    /\ maxRetries' = IF op = "fetchDataWithRetries" THEN m ELSE DefaultMaxRetries
    /\ attempt' = 0
    /\ data' = data
    /\ outcomes' = <<>>
    /\ IF UsesRetries(op) /\ ~LoopContinues(0, maxRetries')
       THEN Reject(MaxRetriesReached) /\ timer' = timer
       ELSE BeginFetchData

(***************************************************************************)
(* A fetchData call has rejected with `error` (its catch block has run).   *)
(* A direct caller sees the rejection; the retry loop either goes round    *)
(* again, calling fetchData anew, or rethrows.                             *)
(***************************************************************************)
AttemptFailed(cause, timerAfter) ==
    LET error == Rethrown(ErrorOf(cause, attempts)) IN
    /\ outcomes' = Append(outcomes, [cause |-> cause, settled |-> Thrown(error)])
    /\ UNCHANGED <<request, maxRetries, data>>
    /\ IF ~UsesRetries(request.op)
       THEN Reject(FacadeCatch(error)) /\ timer' = timerAfter /\ attempt' = attempt
       ELSE IF ShouldRetry(attempt, maxRetries)
       THEN /\ attempt' = attempt + 1
            /\ IF LoopContinues(attempt + 1, maxRetries)
               THEN BeginFetchData
               ELSE Reject(MaxRetriesReached) /\ timer' = timerAfter
       ELSE Reject(error) /\ timer' = timerAfter /\ attempt' = attempt

AttemptSucceeded(d, parsed) ==
    LET settles == FacadeReturn(request, d) IN
    /\ outcomes' = Append(outcomes, [cause |-> "ok", settled |-> Value(d)])
    /\ tpc' = IF settles.kind = "error" THEN "rejected" ELSE "resolved"
    /\ result' = settles
    /\ data' = parsed
    /\ UNCHANGED <<request, maxRetries, attempt, attempts, timer>>

(***************************************************************************)
(* The response arrives before the timer fires: clearTimeout; a non-2xx    *)
(* status is thrown as an Error (the catch block clears the timer again),  *)
(* a 2xx one goes on to res.json().                                        *)
(***************************************************************************)
ResponseArrives(ok) ==
    /\ tpc = "fetching"
    /\ UNCHANGED <<bvars, dvars, ivars, lvars, cvars>>
    /\ IF ok
       THEN /\ tpc' = "json"
            /\ timer' = clearTimeout(timer)
            /\ UNCHANGED <<request, maxRetries, attempt, attempts, data, outcomes, result>>
       ELSE AttemptFailed("http", clearTimeout(clearTimeout(timer)))

\* fetch rejects: DNS, connection
NetworkFailure ==
    /\ tpc = "fetching"
    /\ UNCHANGED <<bvars, dvars, ivars, lvars, cvars>>
    /\ AttemptFailed("network", clearTimeout(timer))

\* the timer callback, when it leaves the request running
TimerFiresNoAbort ==
    /\ timer = "armed"
    /\ UNCHANGED <<bvars, dvars, ivars, lvars, cvars>>
    /\ timer' = "fired"
    /\ UNCHANGED <<request, maxRetries, attempt, attempts, tpc, data, outcomes, result>>

(***************************************************************************)
(* The timer fires: controller.abort() makes the pending fetch reject with *)
(* an AbortError.                                                          *)
(***************************************************************************)
TimerFires ==
    /\ timer = "armed"
    /\ UNCHANGED <<bvars, dvars, ivars, lvars, cvars>>
    /\ IF tpc \in {"fetching", "json"}
       THEN AttemptFailed("timeout", clearTimeout("fired"))
       ELSE /\ timer' = "fired"
            /\ UNCHANGED <<request, maxRetries, attempt, attempts, tpc, data, outcomes, result>>

(***************************************************************************)
(* res.json() settles: a body that is no JSON is thrown; otherwise the     *)
(* data goes to addImagesToPost or is returned, wrapped when no array.     *)
(***************************************************************************)
JsonSettles(body) ==
    /\ tpc = "json"
    /\ UNCHANGED <<bvars, dvars, ivars, lvars, cvars>>
    /\ IF body = InvalidJson
       THEN AttemptFailed("parse", clearTimeout(timer))
       ELSE IF Enriches(request.endpoint, request.query)
       THEN /\ tpc' = "enriching"
            /\ data' = body
            /\ UNCHANGED <<request, maxRetries, attempt, attempts, timer, outcomes, result>>
       ELSE AttemptSucceeded([body |-> WrapIfNotArray(body), by |-> "fetchData"], body)

(***************************************************************************)
(* await addImagesToPost(data) settles.                                    *)
(***************************************************************************)
AddImagesSettles(ok) ==
    /\ tpc = "enriching"
    /\ UNCHANGED <<bvars, dvars, ivars, lvars, cvars>>
    /\ IF ok
       THEN AttemptSucceeded([body |-> addImagesToPost(data), by |-> "addImagesToPost"], data)
       ELSE AttemptFailed("enrich", clearTimeout(timer))

NextTransport ==
    \/ \E op \in Callers, f \in TransportArgsFields, q \in TransportArgsQuantity,
          m \in (-1)..MaxRetriesArg : Call(op, f, q, m)
    \/ \E ok \in BOOLEAN : ResponseArrives(ok)
    \/ NetworkFailure
    \/ TimerFires
    \/ \E body \in Bodies : JsonSettles(body)
    \/ \E ok \in BOOLEAN : AddImagesSettles(ok)

(***************************************************************************)
(* Redirect resolver: detectRedirects(posts), with slugExtractor and the   *)
(* fetchPageBySlug it re-fetches through.                                  *)
(***************************************************************************)
\* longest batch passed to detectRedirects
MaxPosts == 2
\* most records a re-fetch by slug returns
MaxRefetch == 2

\* A link is a URL: its path segments; the library reads nothing else of it.
Link(segments) == Some([host |-> "site", segments |-> segments])

(***************************************************************************)
(* The posts of a batch: one at its own slug, one whose link has moved to  *)
(* /new/sub/, one fetched without its `link` field, and one whose link is  *)
(* the site's root.                                                        *)
(***************************************************************************)
PostPool ==
    {[slug |-> "a", link |-> Link(<<"a">>), categories |-> {1},
      title |-> "A", image |-> "a.jpg"],
     [slug |-> "old", link |-> Link(<<"new", "sub">>), categories |-> {2},
      title |-> "Old", image |-> "old.jpg"],
     [slug |-> "b", link |-> Undefined, categories |-> {3},
      title |-> "B", image |-> "b.jpg"],
     [slug |-> "home", link |-> Link(<<>>), categories |-> {4},
      title |-> "Home", image |-> "home.jpg"]}

(***************************************************************************)
(* The records a re-fetch can return: the page at /new/, and a page whose  *)
(* own slug differs from its link.                                         *)
(***************************************************************************)
PagePool ==
    {[slug |-> "new", link |-> Link(<<"new">>), categories |-> {9},
      title |-> "New", image |-> "new.jpg"],
     [slug |-> "other", link |-> Link(<<"moved">>), categories |-> {8},
      title |-> "Other", image |-> "other.jpg"]}

\* URL.pathname: "/" and every segment followed by "/"
RECURSIVE Pathname(_)
Pathname(segments) ==
    IF segments = <<>> THEN <<"/">>
    ELSE <<"/", segments[1]>> \o
         (IF Len(segments) = 1 THEN <<"/">> ELSE Pathname(Tail(segments)))

(***************************************************************************)
(* String.prototype.split(sep): the pieces between the separators, the     *)
(* empty ones included.                                                    *)
(***************************************************************************)
RECURSIVE JsSplit(_, _)
JsSplit(str, sep) ==
    IF str = <<>> THEN <<"">>
    ELSE LET rest == JsSplit(Tail(str), sep) IN
         IF str[1] = sep THEN <<"">> \o rest
         ELSE <<str[1]>> \o Tail(rest)

\* a slugExtractor that takes the last path segment
slugExtractorLast(link) ==
    LET segments == ValueOf(link).segments
    IN  IF segments = <<>> THEN "" ELSE segments[Len(segments)]

\* slugExtractor(link): new URL(link).pathname.split('/')[1]
slugExtractor(link) == JsSplit(Pathname(ValueOf(link).segments), "/")[2]

\* new URL(link) throws a TypeError when link is no URL
InvalidUrl == [name |-> "TypeError", message |-> "Invalid URL", attempt |-> 0]
\* what a map callback settles with: a post, an array of records, or a throw
ReturnsPost(post) == [kind |-> "value", isArray |-> FALSE, items |-> <<post>>]
ReturnsArray(records) == [kind |-> "value", isArray |-> TRUE, items |-> records]
Throws(error) == [kind |-> "error", isArray |-> FALSE, items |-> <<>>]
Awaiting == [kind |-> "awaiting", isArray |-> FALSE, items |-> <<>>]

\* the callback without its try/catch
CatchNothing(post, error) == Throws(error)

\* the callback's catch block: log, `return post`
Catch(post, error) == ReturnsPost(post)

\* the overlay left out
OverlayNothing(first, post) == first

\* { ...redirectedPost[0], categories: post.categories }
Overlay(first, post) == [first EXCEPT !.categories = post.categories]

(***************************************************************************)
(* A callback that follows a re-fetched record whose own link has another  *)
(* slug: it goes on to await a second re-fetch instead of returning.       *)
(***************************************************************************)
AfterRefetchFollowsHop(post, get) ==
    LET redirectedPost == fetchPageBySlug(get) IN
    IF redirectedPost.kind = "error" THEN Catch(post, redirectedPost.error)
    ELSE IF Len(redirectedPost.data) > 0
    THEN IF /\ IsDefined(redirectedPost.data[1].link)
            /\ redirectedPost.data[1].slug # slugExtractor(redirectedPost.data[1].link)
         THEN Awaiting
         ELSE ReturnsArray([redirectedPost.data EXCEPT ![1] = Overlay(@, post)])
    ELSE ReturnsArray(redirectedPost.data)

(***************************************************************************)
(* The callback after `await fetchPageBySlug(linkSlug)`: the first record  *)
(* of a non-empty answer is overlaid, and the whole answer is returned.    *)
(***************************************************************************)
AfterRefetch(post, get) ==
    LET redirectedPost == fetchPageBySlug(get) IN
    IF redirectedPost.kind = "error" THEN Catch(post, redirectedPost.error)
    ELSE IF Len(redirectedPost.data) > 0
    THEN ReturnsArray([redirectedPost.data EXCEPT ![1] = Overlay(@, post)])
    ELSE ReturnsArray(redirectedPost.data)

(***************************************************************************)
(* The callback up to its first await: "refetch" when it asks for the page *)
(* at the link's slug, and what it settles with otherwise.                 *)
(***************************************************************************)
BeforeRefetch(post) ==
    IF ~IsDefined(post.link)
    THEN [refetch |-> Undefined, settles |-> Catch(post, InvalidUrl)]
    ELSE IF post.slug # slugExtractor(post.link)
    THEN [refetch |-> Some(slugExtractor(post.link)), settles |-> Awaiting]
    ELSE [refetch |-> Undefined, settles |-> ReturnsPost(post)]

\* the results in the order the callbacks settled
GatherAsSettled(results, order) == [k \in DOMAIN order |-> results[order[k]]]

\* Promise.all: the results in the order of the promises passed
Gather(results, order) == results

(***************************************************************************)
(* Array.prototype.flat(): an array element is replaced by its elements,   *)
(* any other element stays.  Every record of the output keeps `src`, the   *)
(* index of the post whose callback produced it.                           *)
(***************************************************************************)
RECURSIVE Flat(_)
Flat(gathered) ==
    IF gathered = <<>> THEN <<>>
    ELSE LET k == Len(gathered) IN
         Flat(SubSeq(gathered, 1, k - 1)) \o
         [j \in DOMAIN gathered[k].res.items |->
             [src |-> gathered[k].src, rec |-> gathered[k].res.items[j]]]

IndexOrder(n) == [k \in 1..n |-> k]

\* every index of `order` that is in S, in the order of `order`
RECURSIVE Restrict(_, _)
Restrict(order, S) ==
    IF order = <<>> THEN <<>>
    ELSE IF order[1] \in S THEN <<order[1]>> \o Restrict(Tail(order), S)
    ELSE Restrict(Tail(order), S)

RedirectInit ==
    /\ posts = <<>>
    /\ requested = <<>>
    /\ pending = {}
    /\ answer = <<>>
    /\ branch = <<>>
    /\ settled = <<>>
    /\ returned = <<>>
    /\ dpc = "idle"

(***************************************************************************)
(* detectRedirects(posts) up to `await Promise.all`: posts.map runs every  *)
(* callback to its first await, so all re-fetches are issued, in order.    *)
(***************************************************************************)
DetectRedirects(batch) ==
    /\ dpc = "idle"
    /\ posts' = batch
    /\ requested' = [i \in DOMAIN batch |-> BeforeRefetch(batch[i]).refetch]
    /\ pending' = {i \in DOMAIN batch : IsDefined(BeforeRefetch(batch[i]).refetch)}
    /\ answer' = [i \in DOMAIN batch |-> Undefined]
    /\ branch' = [i \in DOMAIN batch |-> BeforeRefetch(batch[i]).settles]
    /\ settled' = Restrict(IndexOrder(Len(batch)), DOMAIN batch \ pending')
    /\ returned' = <<>>
    /\ dpc' = "mapping"
    /\ UNCHANGED <<bvars, tvars, ivars, lvars, cvars>>

(***************************************************************************)
(* The re-fetch of post i settles, with a rejection of its GET or with the *)
(* records the GET returned, and the callback runs to its end.             *)
(***************************************************************************)
RefetchSettles(i, get) ==
    /\ dpc = "mapping"
    /\ i \in pending
    /\ pending' = pending \ {i}
    /\ answer' = [answer EXCEPT ![i] = Some(get)]
    /\ branch' = [branch EXCEPT ![i] = AfterRefetch(posts[i], get)]
    /\ settled' = Append(settled, i)
    /\ UNCHANGED <<posts, requested, returned, dpc>>
    /\ UNCHANGED <<bvars, tvars, ivars, lvars, cvars>>

(***************************************************************************)
(* Promise.all settles: it rejects once a callback has thrown, and         *)
(* resolves once all have returned; detectRedirects returns the flattened  *)
(* array.                                                                  *)
(***************************************************************************)
PromiseAllSettles ==
    /\ dpc = "mapping"
    /\ IF \E i \in DOMAIN posts \ pending : branch[i].kind = "error"
       THEN /\ dpc' = "rejected"
            /\ returned' = <<>>
       ELSE /\ pending = {}
            /\ dpc' = "resolved"
            /\ returned' =
                 Flat(Gather([i \in DOMAIN branch |-> [src |-> i, res |-> branch[i]]],
                             settled))
    /\ UNCHANGED <<posts, requested, pending, answer, branch, settled>>
    /\ UNCHANGED <<bvars, tvars, ivars, lvars, cvars>>

RefetchAnswers ==
    {Thrown(ErrorOf(c, 1)) : c \in {"network", "http", "timeout"}}
    \cup {Value(records) : records \in SeqsUpTo(PagePool, MaxRefetch)}

NextRedirect ==
    \/ \E batch \in SeqsUpTo(PostPool, MaxPosts) : DetectRedirects(batch)
    \/ \E i \in 1..MaxPosts, get \in RefetchAnswers : RefetchSettles(i, get)
    \/ PromiseAllSettles

(***************************************************************************)
(* Images: configure, the fetchData of index.ts as fetchAllImages and      *)
(* fetchImagesInPageBySlug call it, the imageFetchPromise cache, and the   *)
(* matching of a page's attached media against the images in its content.  *)
(***************************************************************************)
\* callers of fetchAllImages whose calls may overlap
MaxCallers == 2
\* most <img> tags in a page's content
MaxImgTags == 3
\* most media attached to a page
MaxAttached == 3

WP_API == <<"wp-json", "wp", "v2">>
HardCodedOrigin == "https://cbgranollers.cat"

\* the options objects passed to configure
ConfigureOptions ==
    {[BASE_URL |-> "https://example.com"], [BASE_URL |-> HardCodedOrigin]}

(***************************************************************************)
(* The URL fetchData requests:                                             *)
(*   new URL(`https://cbgranollers.cat${WP_API}/${endpoint}`)              *)
(* with url.search = query.toString().                                     *)
(***************************************************************************)
FetchDataUrl(endpoint, query) ==
    [origin |-> HardCodedOrigin, path |-> Append(WP_API, endpoint), search |-> query]

\* a GET as it leaves fetchData, with the BASE_URL configured at that moment
Get(endpoint, query) ==
    [url |-> FetchDataUrl(endpoint, query), configured |-> BASE_URL]

(***************************************************************************)
(* An image URL is the sequence of its parts: scheme, host and path        *)
(* without suffixes, then the dimension suffix and the extension, each     *)
(* present or not.                                                         *)
(***************************************************************************)
DimensionSuffixes == {"-300x200", "-150x150"}
Extensions == {".jpg", ".png"}

UrlA300 == <<"https://", "site/a", "-300x200", ".jpg">>
UrlB150 == <<"https://", "site/b", "-150x150", ".png">>
UrlA == <<"https://", "site/a", ".jpg">>
UrlB == <<"https://", "site/b", ".png">>
UrlC == <<"https://", "site/c", ".jpg">>
UrlD == <<"http://", "site/d", ".jpg">>

\* url.replace(/-\d+x\d+(\.\w+)?$/, '')
StripDimension(url) ==
    LET n == Len(url) IN
    IF n >= 2 /\ url[n] \in Extensions /\ url[n - 1] \in DimensionSuffixes
    THEN SubSeq(url, 1, n - 2)
    ELSE IF n >= 1 /\ url[n] \in DimensionSuffixes
    THEN SubSeq(url, 1, n - 1)
    ELSE url

\* url.replace(/\.\w+$/, '')
StripExtension(url) ==
    LET n == Len(url) IN
    IF n >= 1 /\ url[n] \in Extensions THEN SubSeq(url, 1, n - 1) ELSE url

getBaseUrl(url) == StripExtension(StripDimension(url))

\* the src attributes of the <img> tags of a page's content, in order
ImgSources == {UrlA300, UrlB150, UrlC, UrlD}
Contents == SeqsUpTo(ImgSources, MaxImgTags)

\* extractImageUrlsFromContent(content): the src values that begin with https://
extractImageUrlsFromContent(content) ==
    LET IsHttps(src) == src[1] = "https://"
    IN  SelectSeq(content, IsHttps)

\* the media records of the site, and what getImagesLink and fetchAllImages make of them
MediaA == [id |-> 1, source_url |-> UrlA]
MediaB == [id |-> 2, source_url |-> UrlB]
MediaC == [id |-> 3, source_url |-> UrlC]

\* fetchAllImages' .then callback: images.map(image => ({ id, url: image.source_url, ... }))
ImageDetails(media) ==
    [i \in DOMAIN media |-> [id |-> media[i].id, url |-> media[i].source_url]]

\* what GET media?per_page=100 answers with
Libraries == {<<>>, <<MediaC, MediaA, MediaB>>, <<MediaB, MediaC>>}

\* what getImagesLink(id) resolves with: the media attached to the page
Attachments ==
    {ImageDetails(s) : s \in {t \in SeqsUpTo({MediaA, MediaB, MediaC}, MaxAttached) :
                                 \A i, j \in DOMAIN t : t[i] = t[j] => i = j}}

(***************************************************************************)
(* sortImagesByAppearanceOrder(images, imageUrls).  imageUrlOrderMapping   *)
(* maps getBaseUrl(url) to the index of url, a later url overwriting an    *)
(* earlier one; Array.prototype.sort is stable.  An image whose key the    *)
(* mapping lacks compares as NaN, which sort treats as equal.              *)
(***************************************************************************)
imageUrlOrderMapping(baseUrl, urls) ==
    LET at == {i \in DOMAIN urls : getBaseUrl(urls[i]) = baseUrl}
    IN  IF at = {} THEN Undefined ELSE Some(CHOOSE i \in at : \A j \in at : j <= i)

ComesAfter(a, b, urls) ==
    LET ka == imageUrlOrderMapping(getBaseUrl(a.url), urls)
        kb == imageUrlOrderMapping(getBaseUrl(b.url), urls)
    IN  IsDefined(ka) /\ IsDefined(kb) /\ ValueOf(ka) - ValueOf(kb) > 0

RECURSIVE InsertInOrder(_, _, _)
InsertInOrder(image, sorted, urls) ==
    IF sorted = <<>> THEN <<image>>
    ELSE IF ComesAfter(sorted[1], image, urls) THEN <<image>> \o sorted
    ELSE <<sorted[1]>> \o InsertInOrder(image, Tail(sorted), urls)

RECURSIVE sortImagesByAppearanceOrder(_, _)
sortImagesByAppearanceOrder(imgs, urls) ==
    IF imgs = <<>> THEN <<>>
    ELSE InsertInOrder(imgs[Len(imgs)],
                       sortImagesByAppearanceOrder(SubSeq(imgs, 1, Len(imgs) - 1), urls),
                       urls)

(***************************************************************************)
(* fetchImagesInPageBySlug after its Promise.all: the attached media when  *)
(* they are as many as the content's images, else the library's, each      *)
(* filtered by imageUrlSet.has(image.url) and then sorted.                 *)
(***************************************************************************)
filteredImages(urls, attached, library) ==
    LET InUrlSet(image) == image.url \in Range(urls) IN
    IF Len(urls) = Len(attached)
    THEN sortImagesByAppearanceOrder(SelectSeq(attached, InUrlSet), urls)
    ELSE LET filtered == SelectSeq(library, InUrlSet) IN
         IF Len(filtered) = 0 THEN attached
         ELSE sortImagesByAppearanceOrder(filtered, urls)

\* the states of the promise in imageFetchPromise
NoPromise == [state |-> "null"]
PendingPromise == [state |-> "pending"]
SettledPromise(with) == [state |-> "settled", with |-> with]

\* `if (imageFetchPromise)`, were the cache to hold the resolved list only
CacheHitWhenResolved(promise) == promise.state = "settled" /\ promise.with.kind = "value"

\* fetchAllImages: `if (imageFetchPromise)`
CacheHit(promise) == promise.state # "null"

Idle == [pc |-> "idle", found |-> "none", got |-> NoResult]
Awaits(found) == [pc |-> "awaiting", found |-> found, got |-> NoResult]
Got(found, with) ==
    [pc |-> IF with.kind = "value" THEN "returned" ELSE "threw", found |-> found, got |-> with]

ImagesInit ==
    /\ BASE_URL = Undefined
    /\ imageFetchPromise = NoPromise
    /\ sent = <<>>
    /\ callers = [c \in 0..MaxCallers |-> Idle]
    /\ imageUrls = <<>>
    /\ images = <<>>
    /\ pageImages = <<>>
    /\ ipc = "idle"

\* configure(options): BASE_URL = options.BASE_URL
configure(options) ==
    /\ BASE_URL' = Some(options.BASE_URL)
    /\ UNCHANGED <<imageFetchPromise, sent, callers, imageUrls, images, pageImages, ipc>>
    /\ UNCHANGED <<bvars, tvars, dvars, lvars, cvars>>

(***************************************************************************)
(* A call of fetchAllImages up to its await: with a promise in the cache   *)
(* it awaits that one, else it calls fetchData, which issues the GET, and  *)
(* stores the promise.  `gets` are the GETs issued so far.                 *)
(***************************************************************************)
CallFetchAllImages(c, gets) ==
    IF CacheHit(imageFetchPromise)
    THEN /\ imageFetchPromise' = imageFetchPromise
         /\ sent' = gets
         /\ callers' = [callers EXCEPT ![c] =
                IF imageFetchPromise.state = "settled"
                THEN Got("settled", imageFetchPromise.with)
                ELSE Awaits(imageFetchPromise.state)]
    ELSE /\ imageFetchPromise' = PendingPromise
         /\ sent' = Append(gets, Get("media", WithParam(NoParams, "per_page", MediaPerPage)))
         /\ callers' = [callers EXCEPT ![c] = Awaits("null")]

fetchAllImages(c) ==
    /\ callers[c].pc = "idle"
    /\ CallFetchAllImages(c, sent)
    /\ UNCHANGED <<BASE_URL, imageUrls, images, pageImages, ipc>>
    /\ UNCHANGED <<bvars, tvars, dvars, lvars, cvars>>

\* what the fetchData call behind the cached promise settles with
MediaAnswers ==
    {Thrown(ErrorOf("network", 1)), Thrown(ErrorOf("http", 1))}
        \cup {Value(ImageDetails(library)) : library \in Libraries}

(***************************************************************************)
(* The cached promise settles, and with it every call awaiting it.         *)
(***************************************************************************)
MediaSettles(with) ==
    /\ imageFetchPromise.state = "pending"
    /\ imageFetchPromise' = SettledPromise(with)
    /\ callers' = [c \in DOMAIN callers |->
                      IF callers[c].pc = "awaiting" THEN Got(callers[c].found, with)
                      ELSE callers[c]]
    /\ UNCHANGED <<BASE_URL, sent, imageUrls, images, pageImages, ipc>>
    /\ UNCHANGED <<bvars, tvars, dvars, lvars, cvars>>

\* fetchImagesInPageBySlug(slug) up to `await fetchPageBySlug(slug)`
fetchImagesInPageBySlug ==
    /\ ipc = "idle"
    /\ ipc' = "page"
    /\ sent' = Append(sent, Get("pages", WithParam(NoParams, "slug", "new")))
    /\ UNCHANGED <<BASE_URL, imageFetchPromise, callers, imageUrls, images, pageImages>>
    /\ UNCHANGED <<bvars, tvars, dvars, lvars, cvars>>

\* what the GET of fetchPageBySlug settles with: an error, no page, or a page
PageAnswers ==
    {Thrown(ErrorOf("http", 1)), Value(<<>>)}
        \cup {Value(<<[id |-> 7, content |-> content]>>) : content \in Contents}

(***************************************************************************)
(* fetchPageBySlug settles: a rejection leaves through the catch block,    *)
(* a page has its image URLs extracted and getImagesLink(id) and           *)
(* fetchAllImages() are called for Promise.all.                            *)
(***************************************************************************)
PageSettles(get) ==
    LET page == fetchPageBySlug(get) IN
    /\ ipc = "page"
    /\ UNCHANGED <<BASE_URL, images, pageImages>>
    /\ UNCHANGED <<bvars, tvars, dvars, lvars, cvars>>
    /\ IF page.kind = "error"
       THEN /\ ipc' = "threw"
            /\ UNCHANGED <<imageFetchPromise, sent, callers, imageUrls>>
       ELSE /\ ipc' = "gathering"
            /\ imageUrls' = extractImageUrlsFromContent(page.data[1].content)
            /\ CallFetchAllImages(0, sent)

\* what getImagesLink(id) settles with
AttachedAnswers ==
    {Thrown(ErrorOf("http", 1))} \cup {Value(attached) : attached \in Attachments}

(***************************************************************************)
(* Promise.all([getImagesLink(id), fetchAllImages()]) settles and the      *)
(* function runs to its return; a rejection of either leaves through the   *)
(* catch block.                                                            *)
(***************************************************************************)
ImagesGathered(attached) ==
    /\ ipc = "gathering"
    /\ callers[0].pc \in {"returned", "threw"}
    /\ UNCHANGED <<BASE_URL, imageFetchPromise, sent, callers, imageUrls>>
    /\ UNCHANGED <<bvars, tvars, dvars, lvars, cvars>>
    /\ IF attached.kind = "error" \/ callers[0].pc = "threw"
       THEN /\ ipc' = "threw"
            /\ UNCHANGED <<images, pageImages>>
       ELSE /\ ipc' = "returned"
            /\ images' = attached.data
            /\ pageImages' = filteredImages(imageUrls, attached.data, callers[0].got.data)

NextImageCache ==
    \/ \E options \in ConfigureOptions : configure(options)
    \/ \E c \in 1..MaxCallers : fetchAllImages(c)
    \/ \E with \in MediaAnswers : MediaSettles(with)

NextImagesInPage ==
    \/ fetchImagesInPageBySlug
    \/ \E get \in PageAnswers : PageSettles(get)
    \/ \E with \in MediaAnswers : MediaSettles(with)
    \/ \E attached \in AttachedAnswers : ImagesGathered(attached)

(***************************************************************************)
(* Per-URL image lookups: fetchImagesInPageBySlug as it maps the image     *)
(* URLs of a page's content through fetchImageByUrl under Promise.all.     *)
(***************************************************************************)
\* most image URLs in a batch of lookups
MaxLookups == 2

LookupUrls == {UrlA300, UrlB150, UrlC}
LookupBatches == SeqsUpTo(LookupUrls, MaxLookups)

(***************************************************************************)
(* What fetchDataWithRetries settles with for the lookup of `url`: the     *)
(* last error once the retries are used up, an empty list, or the record.  *)
(***************************************************************************)
LookupAnswers(url) ==
    {Thrown(ErrorOf("network", DefaultMaxRetries)),
     Thrown(ErrorOf("timeout", DefaultMaxRetries)),
     Value(<<>>),
     Value(<<[ID |-> 1, url |-> url]>>)}

UndefinedImage ==
    [name |-> "TypeError", message |-> "Cannot read properties of undefined", attempt |-> 0]

(***************************************************************************)
(* fetchImageByUrl(url), given what its fetchDataWithRetries call settles  *)
(* with: `image[0]` of the list, undefined for an empty one; a rejection   *)
(* is logged and rethrown.                                                 *)
(***************************************************************************)
fetchImageByUrl(get) ==
    IF get.kind = "error" THEN get
    ELSE IF get.data = <<>> THEN Value(Undefined)
    ELSE Value(Some(get.data[1]))

(***************************************************************************)
(* The map callback of fetchImagesInPageBySlug: it awaits fetchImageByUrl  *)
(* and reads the image's properties, which throws on undefined.            *)
(***************************************************************************)
LookupCallback(get) ==
    LET image == fetchImageByUrl(get) IN
    IF image.kind = "error" THEN image
    ELSE IF ~IsDefined(image.data) THEN Thrown(UndefinedImage)
    ELSE Value([id |-> ValueOf(image.data).ID, url |-> ValueOf(image.data).url])

LookupsInit ==
    /\ lookupUrls = <<>>
    /\ lookups = <<>>
    /\ allMedia = NoResult
    /\ lpc = "idle"

\* imageUrls.map(async (url, i) => ...): every callback runs up to its await
StartLookups(urls) ==
    /\ lpc = "idle"
    /\ lookupUrls' = urls
    /\ lookups' = [i \in DOMAIN urls |-> NoResult]
    /\ lpc' = IF urls = <<>> THEN "resolved" ELSE "mapping"
    /\ allMedia' = IF urls = <<>> THEN Value(<<>>) ELSE NoResult
    /\ UNCHANGED <<bvars, tvars, dvars, ivars, cvars>>

(***************************************************************************)
(* The lookup of the i-th URL settles and its callback with it.            *)
(* Promise.all rejects with the first rejection and resolves, in the       *)
(* order of the URLs, once every callback has resolved; the callbacks      *)
(* still pending when it rejects run on, their results unread.             *)
(***************************************************************************)
LookupSettles(i, get) ==
    /\ lpc \in {"mapping", "rejected"}
    /\ i \in DOMAIN lookups
    /\ lookups[i] = NoResult
    /\ get \in LookupAnswers(lookupUrls[i])
    /\ UNCHANGED lookupUrls
    /\ UNCHANGED <<bvars, tvars, dvars, ivars, cvars>>
    /\ LET branches == [lookups EXCEPT ![i] = LookupCallback(get)] IN
       /\ lookups' = branches
       /\ IF lpc = "rejected"
          THEN UNCHANGED <<lpc, allMedia>>
          ELSE IF branches[i].kind = "error"
          THEN lpc' = "rejected" /\ allMedia' = branches[i]
          ELSE IF \A j \in DOMAIN branches : branches[j].kind = "value"
          THEN /\ lpc' = "resolved"
               /\ allMedia' = Value([j \in DOMAIN branches |-> branches[j].data])
          ELSE UNCHANGED <<lpc, allMedia>>

NextLookups ==
    \/ \E urls \in LookupBatches : StartLookups(urls)
    \/ \E i \in 1..MaxLookups, get \in UNION {LookupAnswers(url) : url \in LookupUrls} :
          LookupSettles(i, get)

(***************************************************************************)
(* A facade call and configure: fetchPosts or fetchPostsInCategory issues  *)
(* its GET, is suspended until fetchData resolves, and then awaits         *)
(* detectRedirects, whose callbacks re-fetch the moved posts through       *)
(* fetchPageBySlug.  Every fetchData call builds its URL from the module   *)
(* variable BASE_URL as it is when the call is made, and configure may be  *)
(* called at any time in between.                                          *)
(***************************************************************************)
\* the facades that hand their list to detectRedirects
RedirectingFacades == {"fetchPosts", "fetchPostsInCategory"}

\* new URL(`${BASE_URL}${WP_API}/${endpoint}`), BASE_URL read at the call
UrlOf(base, endpoint) == [origin |-> base, path |-> Append(WP_API, endpoint)]

\* n GETs of the same URL
Times(n, url) == [k \in 1..n |-> url]

SessionInit ==
    /\ facade = "none"
    /\ issued = <<>>
    /\ awaited = 0
    /\ cpc = "idle"

(***************************************************************************)
(* The facade is called and runs to `await fetch` in fetchData.  With      *)
(* BASE_URL not yet set, `new URL("undefined/wp-json/wp/v2/posts")` throws *)
(* and the call rejects without a GET.                                     *)
(***************************************************************************)
CallFacade(op) ==
    /\ cpc = "idle"
    /\ facade' = op
    /\ awaited' = 0
    /\ IF IsDefined(BASE_URL)
       THEN /\ issued' = <<UrlOf(ValueOf(BASE_URL), "posts")>>
            /\ cpc' = "fetching"
       ELSE /\ issued' = <<>>
            /\ cpc' = "rejected"
    /\ UNCHANGED <<bvars, tvars, dvars, ivars, lvars>>

(***************************************************************************)
(* The facade's fetchData call settles.  On a list of which `moved` posts  *)
(* have a link slug other than their slug, detectRedirects runs its        *)
(* callbacks to their awaits: one GET of pages?slug= per moved post, all   *)
(* issued in that one turn.                                                *)
(***************************************************************************)
ListSettles(ok, moved) ==
    /\ cpc = "fetching"
    /\ IF ~ok
       THEN /\ cpc' = "rejected"
            /\ UNCHANGED <<issued, awaited>>
       ELSE /\ issued' = issued \o Times(moved, UrlOf(ValueOf(BASE_URL), "pages"))
            /\ awaited' = moved
            /\ cpc' = IF moved = 0 THEN "resolved" ELSE "redirecting"
    /\ UNCHANGED facade
    /\ UNCHANGED <<bvars, tvars, dvars, ivars, lvars>>

\* one re-fetch settles; with the last of them the facade returns
PageRefetchSettles ==
    /\ cpc = "redirecting"
    /\ awaited' = awaited - 1
    /\ cpc' = IF awaited = 1 THEN "resolved" ELSE "redirecting"
    /\ UNCHANGED <<facade, issued>>
    /\ UNCHANGED <<bvars, tvars, dvars, ivars, lvars>>

NextSession ==
    \/ \E options \in ConfigureOptions : configure(options)
    \/ \E op \in RedirectingFacades : CallFacade(op)
    \/ \E ok \in BOOLEAN, moved \in 0..MaxPosts : ListSettles(ok, moved)
    \/ PageRefetchSettles

BuilderIdle ==
    /\ fields = Undefined
    /\ quantity = Undefined
    /\ endpointParams = NoParams
    /\ bpc = "idle"

NextBuilder == BuildParams

Quiet == TransportInit /\ RedirectInit /\ ImagesInit /\ LookupsInit /\ SessionInit

InitBuilder == BuilderInit /\ Quiet
InitTransport == BuilderIdle /\ Quiet
InitRedirect == BuilderIdle /\ Quiet
InitImageCache == BuilderIdle /\ Quiet
InitImagesInPage == BuilderIdle /\ Quiet
InitLookups == BuilderIdle /\ Quiet
InitSession == BuilderIdle /\ Quiet

SpecBuilder == InitBuilder /\ [][NextBuilder]_vars
SpecTransport == InitTransport /\ [][NextTransport]_vars
SpecRedirect == InitRedirect /\ [][NextRedirect]_vars
SpecImageCache == InitImageCache /\ [][NextImageCache]_vars
SpecImagesInPage == InitImagesInPage /\ [][NextImagesInPage]_vars
SpecLookups == InitLookups /\ [][NextLookups]_vars
SpecSession == InitSession /\ [][NextSession]_vars

(***************************************************************************)
(* The query builder's properties (SpecBuilder).                           *)
(***************************************************************************)
(***************************************************************************)
(* What the remote API reads back from a joined `_fields` value: the       *)
(* pieces between the separators (String.prototype.split).                 *)
(***************************************************************************)
RECURSIVE Split(_, _)
Split(str, sep) ==
    IF str = <<>> THEN <<>>
    ELSE IF str[1] = sep THEN Split(Tail(str), sep)
    ELSE <<str[1]>> \o Split(Tail(str), sep)

CountOf(s, t) == Cardinality({i \in DOMAIN s : s[i] = t})
FirstIndex(s, t) == CHOOSE i \in DOMAIN s : s[i] = t /\ \A j \in 1..(i - 1) : s[j] # t

\* C1: for every non-empty field list, the tokens read back from `_fields`
\* are the distinct tokens of the input, each exactly once, in the order of
\* their first appearance in the input.
C1_FieldsDeduplicatedInOrder ==
    (bpc = "built" /\ IsDefined(fields) /\ Len(ValueOf(fields)) > 0) =>
        /\ "_fields" \in DOMAIN endpointParams
        /\ LET input == ValueOf(fields)
               out == Split(endpointParams["_fields"], ",")
           IN  /\ Range(out) = Range(input)
               /\ \A t \in Range(input) : CountOf(out, t) = 1
               /\ \A i, j \in DOMAIN out :
                      i < j => FirstIndex(input, out[i]) < FirstIndex(input, out[j])
               /\ CountOf(endpointParams["_fields"], ",") = Len(out) - 1

\* C1 witness: a list with a token repeated after another token has been built.
C1_Witness ==
    /\ bpc = "built"
    /\ fields = Some(<<"title", "id", "title">>)
    /\ endpointParams["_fields"] = <<"title", ",", "id">>

ThroughRetries == request.op \in {"fetchImageByUrl", "fetchDataWithRetries"}
Failed(k) == outcomes[k].cause # "ok"

\* C3: with the default retry count, a call whose first two attempts have
\* failed makes a third attempt, three in all, and when that one succeeds the
\* call resolves with its result.
C3_ThirdAttemptSucceeds ==
    (/\ ThroughRetries
     /\ maxRetries = DefaultMaxRetries
     /\ Len(outcomes) >= 2
     /\ Failed(1) /\ Failed(2)) =>
        /\ attempts = 3
        /\ Len(outcomes) = 2 => tpc \in {"fetching", "json", "enriching"}
        /\ (Len(outcomes) = 3 /\ ~Failed(3)) =>
               /\ tpc = "resolved"
               /\ result.kind = "value"
               /\ result = outcomes[3].settled

\* C3 witness: fetchImageByUrl has resolved on its third attempt after two failures.
C3_Witness ==
    /\ request.op = "fetchImageByUrl"
    /\ tpc = "resolved"
    /\ attempts = 3
    /\ Len(outcomes) = 3
    /\ Failed(1) /\ Failed(2) /\ ~Failed(3)
    /\ result.kind = "value"

\* C4: a retried call (maxRetries >= 1) never makes more than maxRetries
\* attempts, and when it rejects, every one of exactly maxRetries attempts has
\* failed and the rejection is the error of the last of them.
C4_ExhaustedRetriesRethrowLastError ==
    (ThroughRetries /\ maxRetries >= 1) =>
        /\ attempts <= maxRetries
        /\ tpc = "rejected" =>
               /\ attempts = maxRetries
               /\ Len(outcomes) = maxRetries
               /\ \A k \in DOMAIN outcomes : Failed(k)
               /\ result = outcomes[maxRetries].settled
               /\ result.error.attempt = maxRetries

\* C4 witness: a call with maxRetries = 2 has rejected with the second attempt's
\* timeout, the first attempt having failed with a non-2xx response.
C4_Witness ==
    /\ request.op = "fetchDataWithRetries"
    /\ maxRetries = 2
    /\ tpc = "rejected"
    /\ attempts = 2
    /\ outcomes[1].cause = "http"
    /\ outcomes[2].cause = "timeout"
    /\ result.error.name = "AbortError"

C6_TimeoutRejectsWithAbortError ==
    /\ timer = "fired" =>
           /\ tpc = "rejected"
           /\ outcomes[Len(outcomes)].cause = "timeout"
           /\ result.kind = "error"
           /\ result.error.name = "AbortError"
    /\ \A k \in DOMAIN outcomes :
           (outcomes[k].cause = "timeout")
               <=> (/\ outcomes[k].settled.kind = "error"
                    /\ outcomes[k].settled.error.name = "AbortError")

\* C6 witness: fetchPageById's single GET was aborted by the timer.
C6_Witness ==
    /\ request.op = "fetchPageById"
    /\ timer = "fired"
    /\ tpc = "rejected"
    /\ Len(outcomes) = 1
    /\ result.error.name = "AbortError"

(***************************************************************************)
(* The redirect resolver's properties (SpecRedirect).                      *)
(***************************************************************************)
\* the records of the output that post i's callback produced, in output order
RECURSIVE RecordsFrom(_, _)
RecordsFrom(out, i) ==
    IF out = <<>> THEN <<>>
    ELSE IF out[1].src = i THEN <<out[1].rec>> \o RecordsFrom(Tail(out), i)
    ELSE RecordsFrom(Tail(out), i)

OutputOf(i) == RecordsFrom(returned, i)

\* post i has a link whose first path segment is not its slug
Moved(i) ==
    /\ IsDefined(posts[i].link)
    /\ ValueOf(posts[i].link).segments # <<>>
    /\ posts[i].slug # ValueOf(posts[i].link).segments[1]

Answered(i) == IsDefined(answer[i])
AnsweredWith(i, n) ==
    /\ Answered(i)
    /\ ValueOf(answer[i]).kind = "value"
    /\ Len(ValueOf(answer[i]).data) = n
AnswerFailed(i) == Answered(i) /\ ValueOf(answer[i]).kind = "error"

\* C7: a post whose slug differs from the first path segment of its link is
\* re-fetched by that segment, and when the re-fetch returns records, the
\* first record returned for the post is the first re-fetched record with the
\* original post's categories.
C7_RedirectKeepsOriginalCategories ==
    /\ dpc # "idle" =>
           \A i \in DOMAIN posts :
               Moved(i) => requested[i] = Some(ValueOf(posts[i].link).segments[1])
    /\ dpc = "resolved" =>
           \A i \in DOMAIN posts :
               (Moved(i) /\ Answered(i) /\ ~AnswerFailed(i) /\ ~AnsweredWith(i, 0)) =>
                   LET first == ValueOf(answer[i]).data[1] IN
                   /\ OutputOf(i) # <<>>
                   /\ OutputOf(i)[1].categories = posts[i].categories
                   /\ OutputOf(i)[1].slug = first.slug
                   /\ OutputOf(i)[1].link = first.link

\* C7 witness: the post at slug "old" with link /new/sub/ has been replaced by
\* the page re-fetched by "new", carrying the post's categories {2}, not {9}.
C7_Witness ==
    /\ dpc = "resolved"
    /\ Len(posts) = 1
    /\ posts[1].slug = "old"
    /\ requested[1] = Some("new")
    /\ AnsweredWith(1, 1)
    /\ ValueOf(answer[1]).data[1].categories = {9}
    /\ Len(OutputOf(1)) = 1
    /\ OutputOf(1)[1].slug = "new"
    /\ OutputOf(1)[1].categories = {2}

\* C8: when a re-fetch returns zero records, detectRedirects does not reject,
\* and the output holds, for that post, the original post and nothing else.
C8_EmptyRefetchKeepsOriginalPost ==
    \A i \in DOMAIN posts :
        AnsweredWith(i, 0) =>
            /\ dpc # "rejected"
            /\ dpc = "resolved" => OutputOf(i) = <<posts[i]>>

\* C8 witness: the first of two posts was re-fetched, got an empty list, and is
\* in the output as it was passed in.
C8_Witness ==
    /\ dpc = "resolved"
    /\ Len(posts) = 2
    /\ AnsweredWith(1, 0)
    /\ returned[1] = [src |-> 1, rec |-> posts[1]]
    /\ Len(returned) >= 2

\* C9: when the re-fetch of a post rejects, detectRedirects does not reject,
\* the output holds the original post for it, and every other re-fetched post
\* has all the records of its own answer in the output.
C9_FailedRefetchFallsBackToPost ==
    \A i \in DOMAIN posts :
        AnswerFailed(i) =>
            /\ dpc # "rejected"
            /\ dpc = "resolved" =>
                   /\ pending = {}
                   /\ OutputOf(i) = <<posts[i]>>
                   /\ \A j \in DOMAIN posts \ {i} :
                          (Answered(j) /\ ~AnswerFailed(j) /\ ~AnsweredWith(j, 0)) =>
                              LET got == ValueOf(answer[j]).data IN
                              /\ Len(OutputOf(j)) = Len(got)
                              /\ \A k \in DOMAIN got : OutputOf(j)[k].slug = got[k].slug

\* C9 witness: of two moved posts the first one's re-fetch was rejected and the
\* second one's returned a page; the output is the first post, then that page.
C9_Witness ==
    /\ dpc = "resolved"
    /\ Len(posts) = 2
    /\ AnswerFailed(1)
    /\ AnsweredWith(2, 1)
    /\ Len(returned) = 2
    /\ returned[1].rec = posts[1]
    /\ returned[2].rec.slug \in {"new", "other"}

\* C10: in the output, the records of post i come before the records of post j
\* whenever i < j, in whatever order the re-fetches settled.
C10_OutputInInputOrder ==
    dpc = "resolved" =>
        \A k, l \in DOMAIN returned :
            k < l => returned[k].src <= returned[l].src

\* C10 witness: the second post's re-fetch settled before the first one's, and
\* the output still starts with the first post's record.
C10_Witness ==
    /\ dpc = "resolved"
    /\ settled = <<2, 1>>
    /\ AnsweredWith(1, 1) /\ AnsweredWith(2, 2)
    /\ Len(returned) = 3
    /\ returned[1].src = 1
    /\ returned[2].src = 2

(***************************************************************************)
(* Base URL, by-id and by-slug lookups, enrichment, error propagation.     *)
(***************************************************************************)
\* C11: every GET issued by fetchData goes to the origin most recently passed
\* to configure, at the path /wp-json/wp/v2/{endpoint}, and to no other host.
C11_GetTargetsConfiguredBaseUrl ==
    \A i \in DOMAIN sent :
        IsDefined(sent[i].configured) =>
            /\ sent[i].url.origin = ValueOf(sent[i].configured)
            /\ SubSeq(sent[i].url.path, 1, 3) = <<"wp-json", "wp", "v2">>

\* C11, the case at hand: configure was given https://example.com and the
\* media GET of fetchAllImages went to https://cbgranollers.cat.
C11_Witness ==
    /\ Len(sent) = 1
    /\ sent[1].configured = Some("https://example.com")
    /\ sent[1].url.origin = "https://cbgranollers.cat"
    /\ sent[1].url.path = <<"wp-json", "wp", "v2", "media">>

ById == request.op \in {"fetchPostById", "fetchPageById"}
LastOutcome == outcomes[Len(outcomes)]
GetSucceeded == Len(outcomes) > 0 /\ LastOutcome.cause = "ok"

\* the tokens of the `_fields` parameter of the request, <<>> when it has none
FieldsAsked ==
    IF IsDefined(request.query) /\ "_fields" \in DOMAIN ValueOf(request.query)
    THEN Split(ValueOf(request.query)["_fields"], ",")
    ELSE <<>>

PostsOrPages == request.endpoint.resource \in {"posts", "pages"}
ImageWanted == FieldsAsked = <<>> \/ \E k \in DOMAIN FieldsAsked : FieldsAsked[k] = "image"

BySlug == request.op \in {"fetchPostBySlug", "fetchPageBySlug"}

\* C14: a lookup by slug whose GET was answered with an empty list rejects
\* with a not-found error.
C14_EmptySlugLookupRejectsNotFound ==
    (BySlug /\ GetSucceeded /\ LastOutcome.settled.data.body = JsonArray(<<>>)) =>
        /\ tpc = "rejected"
        /\ result.kind = "error"
        /\ result.error.message \in {"Page not found", "Post not found"}

\* C14, the case at hand: fetchPostBySlug resolved with the empty list.
C14_Witness ==
    /\ request.op = "fetchPostBySlug"
    /\ GetSucceeded
    /\ tpc = "resolved"
    /\ result.data.body = JsonArray(<<>>)

(***************************************************************************)
(* The media cache (SpecImageCache).                                       *)
(***************************************************************************)
MediaGets == {i \in DOMAIN sent : sent[i].url.path[Len(sent[i].url.path)] = "media"}
HasCalled(c) == callers[c].pc # "idle"
HasSettled(c) == callers[c].pc \in {"returned", "threw"}

\* C15: however many calls of fetchAllImages overlap, one media GET has been
\* issued, every call still waiting waits on the one pending promise, and
\* every call that has settled got what that promise settled with.
C15_OverlappingCallsShareOneGet ==
    /\ (\E c \in DOMAIN callers : HasCalled(c)) => Cardinality(MediaGets) = 1
    /\ \A c \in DOMAIN callers :
           /\ callers[c].pc = "awaiting" => imageFetchPromise.state = "pending"
           /\ HasSettled(c) =>
                  /\ imageFetchPromise.state = "settled"
                  /\ callers[c].got = imageFetchPromise.with

\* C15 witness: the second call found the first one's promise pending, one GET
\* was sent, and both calls returned the same three images.
C15_Witness ==
    /\ callers[1].found = "null"
    /\ callers[2].found = "pending"
    /\ callers[1].pc = "returned"
    /\ callers[2].pc = "returned"
    /\ callers[1].got = callers[2].got
    /\ Len(callers[1].got.data) = 3
    /\ Cardinality(MediaGets) = 1

(***************************************************************************)
(* The images of a page (SpecImagesInPage).                                *)
(***************************************************************************)
\* the place in the content of the image an image record is a rendition of
NormalizedKeys == {getBaseUrl(imageUrls[i]) : i \in DOMAIN imageUrls}
InContent(image) == getBaseUrl(image.url) \in NormalizedKeys
PlaceInContent(image) ==
    CHOOSE i \in DOMAIN imageUrls :
        /\ getBaseUrl(imageUrls[i]) = getBaseUrl(image.url)
        /\ \A j \in 1..(i - 1) : getBaseUrl(imageUrls[j]) # getBaseUrl(image.url)
InAppearanceOrder(imgs) ==
    \A k, l \in DOMAIN imgs :
        (k < l /\ InContent(imgs[k]) /\ InContent(imgs[l])) =>
            PlaceInContent(imgs[k]) <= PlaceInContent(imgs[l])

\* C16: when the content has as many image URLs as the page has attached
\* media, fetchImagesInPageBySlug returns all the attached media, in the order
\* in which the content shows the images they are renditions of.
C16_EqualCountsReturnAllAttachedInOrder ==
    (ipc = "returned" /\ Len(imageUrls) = Len(images)) =>
        /\ Len(pageImages) = Len(images)
        /\ Range(pageImages) = Range(images)
        /\ InAppearanceOrder(pageImages)

\* C16, the case at hand: content images a-300x200.jpg, b-150x150.png, c.jpg,
\* attached media c.jpg, a.jpg, b.png; what is returned is c.jpg alone.
C16_Witness ==
    /\ ipc = "returned"
    /\ imageUrls = <<UrlA300, UrlB150, UrlC>>
    /\ images = ImageDetails(<<MediaC, MediaA, MediaB>>)
    /\ pageImages = ImageDetails(<<MediaC>>)

\* the images of the library that are renditions of an image in the content
LibraryMatches ==
    LET library == callers[0].got.data
    IN  {library[i] : i \in {j \in DOMAIN library : InContent(library[j])}}

\* C17: when the counts differ, fetchImagesInPageBySlug returns the images of
\* the library whose normalized URL is that of an image in the content, and
\* only them, in appearance order; when there is none, it returns the attached
\* media as they came.
C17_CountsDifferReturnLibraryMatches ==
    (ipc = "returned" /\ Len(imageUrls) # Len(images)) =>
        IF LibraryMatches = {}
        THEN pageImages = images
        ELSE /\ Range(pageImages) = LibraryMatches
             /\ Len(pageImages) = Cardinality(LibraryMatches)
             /\ InAppearanceOrder(pageImages)

\* C17, the case at hand: content images a-300x200.jpg and c.jpg, nothing
\* attached, a library of c.jpg, a.jpg, b.png; what is returned is c.jpg alone.
C17_Witness ==
    /\ ipc = "returned"
    /\ imageUrls = <<UrlA300, UrlC>>
    /\ images = <<>>
    /\ callers[0].got = Value(ImageDetails(<<MediaC, MediaA, MediaB>>))
    /\ pageImages = ImageDetails(<<MediaC>>)

(***************************************************************************)
(* Fan-out batches (SpecLookups) and error propagation (SpecTransport).    *)
(***************************************************************************)
\* C18: in the batch of per-URL image lookups, a lookup that fails does not
\* reject the batch: the batch resolves, with every other lookup's image.
C18_FailedLookupKeepsBatch ==
    /\ (\E i \in DOMAIN lookups : lookups[i].kind = "error") => lpc # "rejected"
    /\ (lpc # "idle" /\ \A i \in DOMAIN lookups : lookups[i].kind # "none") =>
           /\ lpc = "resolved"
           /\ \A i \in DOMAIN lookups :
                  lookups[i].kind = "value" => allMedia.data[i] = lookups[i].data

\* C18, the case at hand: of two lookups the first returned its image, the
\* second was rejected after its retries, and the batch rejected with that error.
C18_Witness ==
    /\ Len(lookups) = 2
    /\ lookups[1].kind = "value"
    /\ lookups[2] = Thrown(ErrorOf("network", 3))
    /\ lpc = "rejected"
    /\ allMedia = lookups[2]

\* C19: when the GET of a facade fails on the network, with a non-2xx status
\* or on a body that is no JSON, the facade rejects with the error fetchData
\* raised, the same object, and never resolves.
C19_FacadeRejectsWithFetchDataError ==
    (/\ request.op \in Facades
     /\ Len(outcomes) > 0
     /\ LastOutcome.cause \in {"network", "http", "parse"}) =>
        /\ tpc = "rejected"
        /\ result = LastOutcome.settled
        /\ result.error = ErrorOf(LastOutcome.cause, 1)

\* C19 witness: fetchPostsInCategory rejected with the SyntaxError of a body
\* that was no JSON.
C19_Witness ==
    /\ request.op = "fetchPostsInCategory"
    /\ tpc = "rejected"
    /\ outcomes[1].cause = "parse"
    /\ result.error.name = "SyntaxError"

\* C20: the record that replaces a moved post carries the post's categories,
\* the post's image and the post's title, not those of the page re-fetched.
C20_RedirectKeepsImageAndTitle ==
    dpc = "resolved" =>
        \A i \in DOMAIN posts :
            (Moved(i) /\ Answered(i) /\ ~AnswerFailed(i) /\ ~AnsweredWith(i, 0)) =>
                /\ OutputOf(i) # <<>>
                /\ OutputOf(i)[1].categories = posts[i].categories
                /\ OutputOf(i)[1].image = posts[i].image
                /\ OutputOf(i)[1].title = posts[i].title

\* C20, the case at hand: the post "Old" with image old.jpg was replaced by
\* the page re-fetched by "new", which kept its own title and image.
C20_Witness ==
    /\ dpc = "resolved"
    /\ Len(posts) = 1
    /\ posts[1].slug = "old"
    /\ AnsweredWith(1, 1)
    /\ OutputOf(1)[1].categories = {2}
    /\ OutputOf(1)[1].title = "New"
    /\ OutputOf(1)[1].image = "new.jpg"

AllWithFields ==
    /\ request.op \in {"fetchPosts", "fetchPages"}
    /\ IsDefined(request.fields)
    /\ request.quantity = Some(-1)

C24_MaxRetriesReachedIsNeverThrown ==
    ThroughRetries => result # Thrown(MaxRetriesReached)

\* C24, the case at hand: fetchDataWithRetries(endpoint, query, 0) has
\* rejected with 'Max retries reached' without a GET.
C24_Witness ==
    /\ request.op = "fetchDataWithRetries"
    /\ maxRetries = 0
    /\ tpc = "rejected"
    /\ attempts = 0
    /\ result = Thrown(MaxRetriesReached)

\* C25: a fetchData call that has settled leaves no pending timer (its timer
\* was cleared or has fired), and from the moment the response has been
\* received (res.json(), addImagesToPost) the timer is cleared, so that it
\* cannot abort the request any more.
C25_NoTimerOutlivesItsRequest ==
    /\ (tpc \in {"resolved", "rejected"} /\ attempts > 0) => timer \in {"cleared", "fired"}
    /\ tpc \in {"json", "enriching"} => timer = "cleared"
    /\ timer = "armed" => tpc = "fetching"
    /\ \A k \in DOMAIN outcomes :
           outcomes[k].cause = "timeout" =>
               outcomes[k].settled = Thrown(ErrorOf("timeout", k))

\* C25 witness: the first attempt of fetchImageByUrl was aborted by its timer,
\* the second got its response and resolved with its timer cleared.
C25_Witness ==
    /\ request.op = "fetchImageByUrl"
    /\ Len(outcomes) = 2
    /\ outcomes[1].cause = "timeout"
    /\ outcomes[2].cause = "ok"
    /\ tpc = "resolved"
    /\ timer = "cleared"

\* C26: a media listing that failed is not cached: a call of fetchAllImages
\* made after the shared promise has rejected does not get that rejection, it
\* issues a GET of its own.
C26_FailedMediaFetchIsNotCached ==
    \A c \in DOMAIN callers :
        ~(callers[c].found = "settled" /\ callers[c].pc = "threw")

\* C26, the case at hand: the first caller's media GET failed; the second
\* caller called afterwards, issued no GET and was rejected with the error
\* kept in imageFetchPromise.
C26_Witness ==
    /\ callers[1].found = "null"
    /\ callers[1].pc = "threw"
    /\ callers[2].found = "settled"
    /\ callers[2].pc = "threw"
    /\ callers[2].got = callers[1].got
    /\ Cardinality(MediaGets) = 1

\* C27: detectRedirects returns one record per post it was given, whatever
\* number of records each re-fetch returned.
C27_OneRecordPerPost ==
    dpc = "resolved" => Len(returned) = Len(posts)

\* C27, the case at hand: the one post given had moved, its re-fetch returned
\* two records, and detectRedirects returned both.
C27_Witness ==
    /\ dpc = "resolved"
    /\ Len(posts) = 1
    /\ Moved(1)
    /\ AnsweredWith(1, 2)
    /\ Len(returned) = 2
    /\ returned[1].rec.slug = "new"
    /\ returned[2].rec.slug = "other"

ListOfPosts == request.op \in {"fetchPosts", "fetchPostsInCategory"}

\* fetchPosts() and fetchPosts(0): no field list, no quantity to speak of
BarePosts ==
    /\ request.op = "fetchPosts"
    /\ ~IsDefined(request.fields)
    /\ request.quantity \in {Undefined, Some(0)}

\* C28 as stated: every list fetchPosts or fetchPostsInCategory returns has
\* passed through detectRedirects, whatever the quantity and the fields,
\* fetchPosts() without arguments included.
C28_EveryPostListPassesDetectRedirects ==
    (ListOfPosts /\ tpc = "resolved") => result.data.by = "detectRedirects"

\* C28, amended: a list returned by a facade is the one detectRedirects
\* returned exactly when the facade is fetchPostsInCategory, or fetchPosts
\* called with a field list or a quantity other than 0; fetchPosts() returns
\* what fetchData resolved with.
C28_PostListsPassDetectRedirectsUnlessBare ==
    tpc = "resolved" =>
        /\ result.data.by = "detectRedirects" <=> (ListOfPosts /\ ~BarePosts)
        /\ result.data.by # "detectRedirects" => result = LastOutcome.settled
        /\ result.data.body = LastOutcome.settled.data.body

\* C28 witness: fetchPosts(2) got its list with the images attached and
\* returned it through detectRedirects.
C28_Witness ==
    /\ request.op = "fetchPosts"
    /\ request.fields = Undefined
    /\ request.quantity = Some(2)
    /\ tpc = "resolved"
    /\ LastOutcome.settled.data.by = "addImagesToPost"
    /\ result.data.by = "detectRedirects"
    /\ Len(result.data.body.items) = 2

\* C29: all the GETs issued on behalf of one facade call, the first fetch and
\* the re-fetches of detectRedirects, go to one base URL, also when configure
\* is called with another BASE_URL while the call is suspended.
C29_OneBaseUrlPerFacadeCall ==
    \A i, j \in DOMAIN issued : issued[i].origin = issued[j].origin

\* C29, the case at hand: fetchPosts sent its GET to example.com, configure
\* was called while it waited, and the re-fetch of its one moved post went to
\* cbgranollers.cat.
C29_Witness ==
    /\ facade = "fetchPosts"
    /\ cpc = "resolved"
    /\ issued = <<UrlOf("https://example.com", "posts"), UrlOf(HardCodedOrigin, "pages")>>
    /\ BASE_URL = Some(HardCodedOrigin)

\* a record whose link has a slug other than its own
LinksElsewhere(record) ==
    /\ IsDefined(record.link)
    /\ record.slug # slugExtractor(record.link)

\* C30: detectRedirects issues at most one re-fetch per post, the callback of
\* a post settles with the answer to that one re-fetch, detectRedirects can
\* return as soon as no re-fetch is in flight, and a re-fetched record whose
\* own slug is not the slug of its link is returned as it was fetched (with
\* the post's categories, if it is the first), not followed further.
C30_OneRefetchPerPostNoFurtherHop ==
    /\ dpc # "idle" =>
           /\ Len(requested) = Len(posts)
           /\ pending \subseteq {i \in DOMAIN posts : IsDefined(requested[i])}
           /\ Len(settled) + Cardinality(pending) = Len(posts)
           /\ \A i \in DOMAIN posts :
                  /\ Answered(i) <=> (IsDefined(requested[i]) /\ i \notin pending)
                  /\ i \notin pending => branch[i].kind \in {"value", "error"}
    /\ (dpc = "mapping" /\ pending = {}) => ENABLED PromiseAllSettles
    /\ dpc = "resolved" =>
           \A i \in DOMAIN posts :
               (Answered(i) /\ ~AnswerFailed(i) /\ ~AnsweredWith(i, 0)) =>
                   LET got == ValueOf(answer[i]).data IN
                   OutputOf(i) = [got EXCEPT ![1].categories = posts[i].categories]

\* C30 witness: the post "old" was re-fetched once, by "new"; the answer was
\* the page "other", whose link points to /moved/; detectRedirects returned
\* that page without a second re-fetch.
C30_Witness ==
    /\ dpc = "resolved"
    /\ Len(posts) = 1
    /\ requested = <<Some("new")>>
    /\ AnsweredWith(1, 1)
    /\ LinksElsewhere(ValueOf(answer[1]).data[1])
    /\ Len(returned) = 1
    /\ returned[1].rec.slug = "other"
    /\ returned[1].rec.link = Link(<<"moved">>)
    /\ settled = <<1>>

=============================================================================
